---- MODULE Spec2Model ----
(***************************************************************************)
(* A model of the hubris elaborator and constraint solver:                 *)
(*   src/src/hubris/typeck/solver.rs   (Solver, replace_metavars)          *)
(*   src/src/hubris/elaborate/mod.rs   (ElabCx, LocalElabCx)               *)
(* The core term language, the constraint model and TyCtxt are not part of *)
(* the files at hand; their operators below follow the design document.    *)
(***************************************************************************)
EXTENDS Integers, Sequences, FiniteSets, TLC

(***************************************************************************)
(* Bounds of the model.                                                    *)
(***************************************************************************)
\* the longest input ConstraintSeq handed to Solver::new
MaxCs == 2
\* beta/iota steps eval may take before the run counts as "eval diverges"
MaxEvalSteps == 6
\* the largest term (in nodes) of a constraint the model still visits
MaxTermSize == 12
\* the most items a surface module holds
MaxItems == 3

(***************************************************************************)
(* Option values.                                                          *)
(***************************************************************************)
None == <<"none">>
Some(x) == <<"some", x>>
IsSome(o) == o[1] = "some"
Unwrap(o) == o[2]

(***************************************************************************)
(* core::Name and core::Term.  A term is a tuple whose first component is  *)
(* its variant; a bound variable is a de Bruijn index.                     *)
(***************************************************************************)
TypeT == <<"type">>
Var(n) == <<"var", n>>
BVar(k) == <<"bvar", k>>
App(f, a) == <<"app", f, a>>
Lam(ty, b) == <<"lam", ty, b>>
Pi(ty, b) == <<"pi", ty, b>>

LocalName(i, ty) == <<"local", i, ty>>
MetaName(i, ty) == <<"meta", i, ty>>
QualName(s) == <<"global", s>>

IsVar(t) == t[1] = "var"
IsApp(t) == t[1] = "app"
IsLambda(t) == t[1] = "lam"
IsForall(t) == t[1] = "pi"

NameIsLocal(n) == n[1] = "local"
NameIsMeta(n) == n[1] = "meta"
NameIsGlobal(n) == n[1] = "global"
\* the one global whose head can reduce: a recursor
RecName == QualName("rec")
CtorName == QualName("c")
NameIsBiReducible(n) == n = RecName

\* Term::is_meta: the term is a metavariable
TermIsMeta(t) == IsVar(t) /\ NameIsMeta(t[2])
\* Term::is_bi_reducible, asked of a head
TermIsBiReducible(t) == IsVar(t) /\ NameIsBiReducible(t[2])

RECURSIVE ApplyAll(_, _)
ApplyAll(f, args) ==
    IF args = <<>> THEN f ELSE ApplyAll(App(f, Head(args)), Tail(args))

RECURSIVE HeadOf(_)
HeadOf(t) == IF IsApp(t) THEN HeadOf(t[2]) ELSE t

RECURSIVE ArgsOf(_)
ArgsOf(t) == IF IsApp(t) THEN Append(ArgsOf(t[2]), t[3]) ELSE <<>>

\* Term::head / Term::args as the solver uses them (Option values)
TermHead(t) == Some(HeadOf(t))
TermArgs(t) == IF IsApp(t) THEN Some(ArgsOf(t)) ELSE None

HeadIsLocal(t) == IsVar(HeadOf(t)) /\ NameIsLocal(HeadOf(t)[2])
HeadIsGlobal(t) == IsVar(HeadOf(t)) /\ NameIsGlobal(HeadOf(t)[2])

RECURSIVE MetasOf(_)
MetasOf(t) ==
    CASE t[1] = "var" -> IF NameIsMeta(t[2]) THEN {t[2]} ELSE {}
      [] t[1] = "app" -> MetasOf(t[2]) \cup MetasOf(t[3])
      [] t[1] = "lam" -> MetasOf(t[2]) \cup MetasOf(t[3])
      [] t[1] = "pi" -> MetasOf(t[2]) \cup MetasOf(t[3])
      [] OTHER -> {}

RECURSIVE FreeLocals(_)
FreeLocals(t) ==
    CASE t[1] = "var" -> IF NameIsLocal(t[2]) THEN {t[2]} ELSE {}
      [] t[1] = "app" -> FreeLocals(t[2]) \cup FreeLocals(t[3])
      [] t[1] = "lam" -> FreeLocals(t[2]) \cup FreeLocals(t[3])
      [] t[1] = "pi" -> FreeLocals(t[2]) \cup FreeLocals(t[3])
      [] OTHER -> {}

RECURSIVE TermSize(_)
TermSize(t) ==
    IF t[1] \in {"app", "lam", "pi"} THEN 1 + TermSize(t[2]) + TermSize(t[3])
    ELSE 1

\* replace the local x by the bound index k (k grows under binders)
RECURSIVE Abstr(_, _, _)
Abstr(t, x, k) ==
    CASE t[1] = "var" -> IF t[2] = x THEN BVar(k) ELSE t
      [] t[1] = "app" -> App(Abstr(t[2], x, k), Abstr(t[3], x, k))
      [] t[1] = "lam" -> Lam(Abstr(t[2], x, k), Abstr(t[3], x, k + 1))
      [] t[1] = "pi" -> Pi(Abstr(t[2], x, k), Abstr(t[3], x, k + 1))
      [] OTHER -> t

\* Term::abstract_lambda: the first local becomes the outermost binder
RECURSIVE AbstractLambda(_, _)
AbstractLambda(locals, t) ==
    IF locals = <<>> THEN t
    ELSE Lam(Head(locals)[3],
             Abstr(AbstractLambda(Tail(locals), t), Head(locals), 0))

\* Term::abstract_pi
RECURSIVE AbstractPi(_, _)
AbstractPi(locals, t) ==
    IF locals = <<>> THEN t
    ELSE Pi(Head(locals)[3],
            Abstr(AbstractPi(Tail(locals), t), Head(locals), 0))

\* replace the bound index k by a
RECURSIVE Subst(_, _, _)
Subst(t, a, k) ==
    CASE t[1] = "bvar" -> IF t[2] = k THEN a ELSE t
      [] t[1] = "app" -> App(Subst(t[2], a, k), Subst(t[3], a, k))
      [] t[1] = "lam" -> Lam(Subst(t[2], a, k), Subst(t[3], a, k + 1))
      [] t[1] = "pi" -> Pi(Subst(t[2], a, k), Subst(t[3], a, k + 1))
      [] OTHER -> t

\* Term::instantiate, called on the body of a binder: its variable becomes a
Instantiate(body, a) == Subst(body, a, 0)

\* Term::instantiate_meta: every occurrence of the meta m becomes sol
RECURSIVE InstantiateMeta(_, _, _)
InstantiateMeta(t, m, sol) ==
    CASE t[1] = "var" -> IF t[2] = m THEN sol ELSE t
      [] t[1] = "app" -> App(InstantiateMeta(t[2], m, sol),
                             InstantiateMeta(t[3], m, sol))
      [] t[1] = "lam" -> Lam(InstantiateMeta(t[2], m, sol),
                             InstantiateMeta(t[3], m, sol))
      [] t[1] = "pi" -> Pi(InstantiateMeta(t[2], m, sol),
                           InstantiateMeta(t[3], m, sol))
      [] OTHER -> t

\* Term::is_stuck: the meta that blocks reduction, if any
RECURSIVE IsStuck(_)
IsStuck(t) ==
    LET h == HeadOf(t)
        as == ArgsOf(t)
    IN  IF TermIsMeta(h) THEN Some(h[2])
        ELSE IF TermIsBiReducible(h) /\ as # <<>> THEN IsStuck(as[1])
        ELSE None

(***************************************************************************)
(* TyCtxt: the reduction oracle.                                           *)
(***************************************************************************)
\* TyCtxt::is_bi_reducible: the term can take a beta or an iota step
IsBiReducible(t) ==
    LET h == HeadOf(t)
        as == ArgsOf(t)
    IN  /\ as # <<>>
        /\ \/ IsLambda(h)
           \/ TermIsBiReducible(h) /\ HeadOf(as[1]) = Var(CtorName)

EvalStep(t) ==
    LET h == HeadOf(t)
        as == ArgsOf(t)
    IN  IF IsLambda(h) THEN ApplyAll(Instantiate(h[3], as[1]), Tail(as))
        ELSE ApplyAll(Var(QualName("z")), Tail(as))

Bottom == <<"bottom">>

\* TyCtxt::eval: weak-head reduction; Bottom when it does not end
RECURSIVE Eval(_, _)
Eval(t, fuel) ==
    IF ~IsBiReducible(t) THEN t
    ELSE IF fuel = 0 THEN Bottom
    ELSE Eval(EvalStep(t), fuel - 1)

(***************************************************************************)
(* The constraint model.  A justification is kept as the set of input      *)
(* constraints its Asserted leaves come from; Join is the union.  The      *)
(* terms an Asserted leaf cites are the two sides of its input constraint. *)
(***************************************************************************)
Unification(t, u, j) == <<"unif", t, u, j>>
ChoiceC == <<"choice">>
IsChoice(c) == c[1] = "choice"
Join(j1, j2) == j1 \cup j2

\* one side is a meta applied to distinct local variables
IsPatternSide(t) ==
    LET as == ArgsOf(t)
    IN  /\ TermIsMeta(HeadOf(t))
        /\ \A i \in 1..Len(as) : IsVar(as[i]) /\ NameIsLocal(as[i][2])
        /\ \A i, k \in 1..Len(as) : as[i] = as[k] => i = k

\* Constraint::categorize for a unification constraint
CategoryOf(t, u) ==
    IF MetasOf(t) = {} /\ MetasOf(u) = {} /\ HeadOf(t) = HeadOf(u) THEN "Ready"
    ELSE IF IsPatternSide(t) # IsPatternSide(u) THEN "Pattern"
    ELSE IF TermIsMeta(HeadOf(t)) /\ TermIsMeta(HeadOf(u)) THEN "FlexFlex"
    ELSE IF TermIsMeta(HeadOf(t)) \/ TermIsMeta(HeadOf(u)) THEN "FlexRigid"
    ELSE "Regular"

Categorize(c) ==
    IF IsChoice(c) THEN <<"Regular", c>> ELSE <<CategoryOf(c[2], c[3]), c>>

\* the order of CategorizedConstraint: a smaller rank is popped first
Rank(cat) ==
    CASE cat = "Resolved" -> 0
      [] cat = "Pattern" -> 1
      [] cat = "FlexRigid" -> 2
      [] cat = "Regular" -> 3
      [] cat = "FlexFlex" -> 4
      [] cat = "Ready" -> 5
      [] OTHER -> 6

(***************************************************************************)
(* replace_metavars (solver.rs).  The result is <<"ok", term>>, or         *)
(* <<"panic">> where the code panics.                                      *)
(***************************************************************************)
\* a lookup that finds no solution
SolutionForgotten(sm, n) ==
    None

SolutionFor(sm, n) ==
    IF n \in DOMAIN sm THEN sm[n] ELSE None

ROk(t) == <<"ok", t>>
RPanic == <<"panic">>

\* a substitution that leaves the meta in front of its solution
ReplaceMetaVarKeepingMeta(name, sm) ==
    IF IsSome(SolutionFor(sm, name))
    THEN ROk(App(Var(name), Unwrap(SolutionFor(sm, name))[1]))
    ELSE RPanic

\* the substitution of one meta occurrence
ReplaceMetaVar(name, sm) ==
    IF IsSome(SolutionFor(sm, name)) THEN ROk(Unwrap(SolutionFor(sm, name))[1])
    ELSE RPanic

RECURSIVE ReplaceMetavars(_, _)
ReplaceMetavars(t, sm) ==
    IF t[1] \in {"app", "lam", "pi"}
    THEN LET x == ReplaceMetavars(t[2], sm)
             y == ReplaceMetavars(t[3], sm)
         IN  IF x[1] = "panic" \/ y[1] = "panic" THEN RPanic
             ELSE ROk(<<t[1], x[2], y[2]>>)
    ELSE IF TermIsMeta(t) THEN ReplaceMetaVar(t[2], sm)
    ELSE ROk(t)

(***************************************************************************)
(* Solver::simplify and Solver::eval_justification.  n is TyCtxt's counter *)
(* of local identities, sm the solution map, inp the input sequence.       *)
(***************************************************************************)
SimpOk(cs, n) == [tag |-> "ok", cs |-> cs, j |-> {}, n |-> n]
SimpErr(j, n) == [tag |-> "err", cs |-> <<>>, j |-> j, n |-> n]
SimpPanic(n) == [tag |-> "panic", cs |-> <<>>, j |-> {}, n |-> n]
SimpDiverge(n) == [tag |-> "diverge", cs |-> <<>>, j |-> {}, n |-> n]

\* one Asserted leaf: substitute the solutions in its terms and evaluate them
EvalLeaf(i, sm, inp) ==
    LET x == ReplaceMetavars(inp[i][2], sm)
        y == ReplaceMetavars(inp[i][3], sm)
    IN  IF x[1] = "panic" \/ y[1] = "panic" THEN "panic"
        ELSE IF Eval(x[2], MaxEvalSteps) = Bottom
                \/ Eval(y[2], MaxEvalSteps) = Bottom THEN "diverge"
        ELSE "ok"

EvalJustification(j, n, sm, inp) ==
    IF \E i \in j : EvalLeaf(i, sm, inp) = "panic" THEN SimpPanic(n)
    ELSE IF \E i \in j : EvalLeaf(i, sm, inp) = "diverge" THEN SimpDiverge(n)
    ELSE SimpErr(j, n)

\* the pointwise pairs of two spines: zip stops at the shorter one
RECURSIVE Zip(_, _)
Zip(ts, us) ==
    IF ts = <<>> \/ us = <<>> THEN <<>>
    ELSE <<<<Head(ts), Head(us)>>>> \o Zip(Tail(ts), Tail(us))

\* every argument of the spine is not a meta (false when there is no spine)
ArgsMetaFree(t) ==
    IF IsSome(TermArgs(t))
    THEN \A i \in 1..Len(ArgsOf(t)) : ~TermIsMeta(ArgsOf(t)[i])
    ELSE FALSE

\* rigid-rigid, the same global head that is not reducible: one categorized
\* constraint per pair of arguments
DecomposeGlobal(t, u, j) ==
    LET ps == Zip(ArgsOf(t), ArgsOf(u))
    IN  [i \in 1..Len(ps) |-> Categorize(Unification(ps[i][1], ps[i][2], j))]

RECURSIVE Simplify(_, _, _, _, _, _)
RECURSIVE SimplifyPairs(_, _, _, _, _, _)
RECURSIVE SimplifyForall(_, _, _, _, _, _)

SimplifyPairs(ps, j, n, sm, inp, acc) ==
    IF ps = <<>> THEN SimpOk(acc, n)
    ELSE LET r == Simplify(Head(ps)[1], Head(ps)[2], j, n, sm, inp)
         IN  IF r.tag # "ok" THEN r
             ELSE SimplifyPairs(Tail(ps), j, r.n, sm, inp, acc \o r.cs)

\* a forall rule that equates the bodies only
SimplifyForallBodiesOnly(t, u, j, n, sm, inp) ==
    Simplify(Instantiate(t[3], Var(LocalName(n, t[2]))),
             Instantiate(u[3], Var(LocalName(n, t[2]))), j, n + 1, sm, inp)

\* two foralls: the binder types, then the bodies instantiated with one
\* local made from the first binder
SimplifyForall(t, u, j, n, sm, inp) ==
    LET local == Var(LocalName(n, t[2]))
        a == Simplify(t[2], u[2], j, n + 1, sm, inp)
    IN  IF a.tag # "ok" THEN a
        ELSE LET b == Simplify(Instantiate(t[3], local),
                               Instantiate(u[3], local), j, a.n, sm, inp)
             IN  IF b.tag # "ok" THEN b ELSE SimpOk(a.cs \o b.cs, b.n)

\* a simplify with its last rule only
SimplifyLastRuleOnly(t, u, j, n, sm, inp) ==
    IF IsSome(IsStuck(t)) \/ IsSome(IsStuck(u))
    THEN SimpOk(<<Categorize(Unification(t, u, j))>>, n)
    ELSE EvalJustification(j, n, sm, inp)

Simplify(t, u, j, n, sm, inp) ==
    IF t = u THEN SimpOk(<<>>, n)
    ELSE IF IsBiReducible(t)
    THEN IF Eval(t, MaxEvalSteps) = Bottom THEN SimpDiverge(n)
         ELSE Simplify(Eval(t, MaxEvalSteps), u, j, n, sm, inp)
    ELSE IF IsBiReducible(u)
    THEN IF Eval(u, MaxEvalSteps) = Bottom THEN SimpDiverge(n)
         ELSE Simplify(t, Eval(u, MaxEvalSteps), j, n, sm, inp)
    ELSE IF HeadIsLocal(t) /\ HeadIsLocal(u) /\ TermHead(t) = TermHead(u)
    THEN IF ~IsSome(TermArgs(t)) \/ ~IsSome(TermArgs(u)) THEN SimpPanic(n)
         ELSE SimplifyPairs(Zip(ArgsOf(t), ArgsOf(u)), j, n, sm, inp, <<>>)
    ELSE IF HeadIsGlobal(t) /\ HeadIsGlobal(u) /\ TermHead(t) = TermHead(u)
    THEN IF TermIsBiReducible(HeadOf(t)) /\ ArgsMetaFree(t) /\ ArgsMetaFree(u)
         THEN SimpPanic(n)
         ELSE IF ~TermIsBiReducible(HeadOf(t))
         THEN IF ~IsSome(TermArgs(t)) \/ ~IsSome(TermArgs(u)) THEN SimpPanic(n)
              ELSE SimpOk(DecomposeGlobal(t, u, j), n)
         ELSE SimpPanic(n)
    ELSE IF IsForall(t) /\ IsForall(u)
    THEN SimplifyForall(t, u, j, n, sm, inp)
    ELSE IF IsSome(IsStuck(t)) \/ IsSome(IsStuck(u))
    THEN SimpOk(<<Categorize(Unification(t, u, j))>>, n)
    ELSE EvalJustification(j, n, sm, inp)

(***************************************************************************)
(* The inputs of the model: the terms of the constraints given to the      *)
(* solver.  a and b are locals, ?1 and ?2 metas, F and G rigid globals.    *)
(***************************************************************************)
La == Var(LocalName(1, TypeT))
Lb == Var(LocalName(2, TypeT))
M1 == Var(MetaName(1, TypeT))
M2 == Var(MetaName(2, TypeT))
GF == Var(QualName("F"))
GG == Var(QualName("G"))
MetaNames == {M1[2], M2[2]}

\* sides headed by a meta
FlexSides ==
    { ApplyAll(M1, <<La, Lb>>), ApplyAll(M1, <<La>>), ApplyAll(M1, <<La, La>>),
      ApplyAll(M2, <<La>>) }
\* sides with a rigid head
RigidSides ==
    { ApplyAll(GF, <<La, Lb>>), ApplyAll(GF, <<La>>), ApplyAll(GF, <<Lb>>),
      GG, ApplyAll(GF, <<M2>>), ApplyAll(GF, <<ApplyAll(M1, <<La>>)>>) }

InputConstraints ==
    { <<"unif", t, u>> : t \in FlexSides, u \in FlexSides \cup RigidSides }
    \cup { <<"unif", t, u>> : t \in RigidSides, u \in {ApplyAll(M1, <<La, Lb>>),
                                                       ApplyAll(GF, <<La>>), GG} }
    \cup { ChoiceC }

\* the terms replace_metavars is applied to after a successful solve
ReplaceInputs == { ApplyAll(M1, <<La, Lb>>), ApplyAll(M2, <<La>>) }

RECURSIVE SeqsOf(_, _)
SeqsOf(S, n) ==
    IF n = 0 THEN {<<>>}
    ELSE {<<>>} \cup { <<x>> \o q : x \in S, q \in SeqsOf(S, n - 1) }

(***************************************************************************)
(* The state of one run of Solver::new, Solver::solve and replace_metavars.*)
(***************************************************************************)
VARIABLES
    input,               \* the ConstraintSeq given to Solver::new
    next_c,              \* position in input of the next constraint to take in
    todo,                \* categorized constraints the pending visit calls hold
    constraints,         \* Solver.constraints, the priority queue
    constraint_mapping,  \* Solver.constraint_mapping
    solution_mapping,    \* Solver.solution_mapping
    local_counter,       \* TyCtxt's counter of local identities
    phase,               \* "new", "solve", or how the run ended
    error,               \* the justification of a returned Error::Justification
    replaced             \* the result of replace_metavars, once called

svars == <<input, next_c, todo, constraints, constraint_mapping,
           solution_mapping, local_counter, phase, error, replaced>>

\* Solver::empty, and the input drawn
SolverInit ==
    /\ input \in SeqsOf(InputConstraints, MaxCs) \ {<<>>}
    /\ next_c = 1
    /\ todo = <<>>
    /\ constraints = <<>>
    /\ constraint_mapping = [m \in MetaNames |-> <<>>]
    /\ solution_mapping = [m \in MetaNames |-> None]
    /\ local_counter = 3
    /\ phase = "new"
    /\ error = {}
    /\ replaced = None

\* how a failed or diverging simplify ends the run
Ended(r) ==
    /\ phase' = r.tag
    /\ error' = r.j
    /\ local_counter' = r.n
    /\ todo' = <<>>

(***************************************************************************)
(* Solver::new: the loop over the input sequence.                          *)
(***************************************************************************)
\* a loop that passes over a Choice constraint
NewTakeSkippingChoice ==
    /\ phase = "new" /\ todo = <<>> /\ next_c <= Len(input)
    /\ LET c == input[next_c]
       IN  IF IsChoice(c)
           THEN UNCHANGED <<todo, phase, error, local_counter>>
           ELSE LET r == Simplify(c[2], c[3], {next_c}, local_counter,
                                  solution_mapping, input)
                IN  IF r.tag = "ok"
                    THEN /\ todo' = r.cs
                         /\ local_counter' = r.n
                         /\ UNCHANGED <<phase, error>>
                    ELSE Ended(r)
    /\ next_c' = next_c + 1
    /\ UNCHANGED <<input, constraints, constraint_mapping, solution_mapping,
                   replaced>>

NewTake ==
    /\ phase = "new" /\ todo = <<>> /\ next_c <= Len(input)
    /\ LET c == input[next_c]
       IN  IF IsChoice(c)
           THEN \* visit of a categorized Choice: the pending call below panics
                /\ todo' = <<Categorize(c)>>
                /\ UNCHANGED <<phase, error, local_counter>>
           ELSE LET r == Simplify(c[2], c[3], {next_c}, local_counter,
                                  solution_mapping, input)
                IN  IF r.tag = "ok"
                    THEN /\ todo' = r.cs
                         /\ local_counter' = r.n
                         /\ UNCHANGED <<phase, error>>
                    ELSE Ended(r)
    /\ next_c' = next_c + 1
    /\ UNCHANGED <<input, constraints, constraint_mapping, solution_mapping,
                   replaced>>

\* Ok(solver): every input constraint was taken in
NewDone ==
    /\ phase = "new" /\ todo = <<>> /\ next_c > Len(input)
    /\ phase' = "solve"
    /\ UNCHANGED <<input, next_c, todo, constraints, constraint_mapping,
                   solution_mapping, local_counter, error, replaced>>

(***************************************************************************)
(* Solver::visit and Solver::visit_unification.                            *)
(***************************************************************************)
\* the meta to solve for; None where the code panics (neither side stuck)
PivotMeta(r, s, sm) ==
    LET m1 == IsStuck(r)
        m2 == IsStuck(s)
    IN  IF IsSome(m1) /\ IsSome(m2)
        THEN (IF IsSome(SolutionFor(sm, Unwrap(m1))) THEN m1 ELSE m2)
        ELSE IF IsSome(m1) THEN m1
        ELSE IF IsSome(m2) THEN m2
        ELSE None

\* the Pattern case: the term whose name is taken as the meta
PatternHead(r, s) ==
    IF IsSome(TermHead(r)) THEN Unwrap(TermHead(r)) ELSE Unwrap(TermHead(s))

\* the Pattern case: the arguments abstracted over
PatternArgs(r) == IF IsSome(TermArgs(r)) THEN Unwrap(TermArgs(r)) ELSE <<>>

\* the filter_map over the arguments: the names of the local variables
RECURSIVE PatternLocals(_)
PatternLocals(as) ==
    IF as = <<>> THEN <<>>
    ELSE IF NameIsLocal(Head(as)[2])
         THEN <<Head(as)[2]>> \o PatternLocals(Tail(as))
         ELSE PatternLocals(Tail(as))

\* a solver that records the other side as it stands
PatternSolutionUnabstracted(r, s) == s

\* the solution recorded: the other side abstracted over those locals
PatternSolution(r, s) == AbstractLambda(PatternLocals(PatternArgs(r)), s)

\* the Pattern case passes its panics and its assertion
PatternAccepted(r, s) ==
    /\ IsVar(PatternHead(r, s))
    /\ \A i \in 1..Len(PatternArgs(r)) : IsVar(PatternArgs(r)[i])
    /\ NameIsMeta(PatternHead(r, s)[2])

\* a wake-up that finds nothing parked
ParkedNone(cm, m) ==
    <<>>

\* the constraints parked under a meta: constraint_mapping.get(&meta)
Parked(cm, m) ==
    cm[m]

\* a solved case that keeps the constraint's own justification
VisitSolvedUnjoined(c, meta, sm, n, inp) ==
    Simplify(InstantiateMeta(c[2], meta, Unwrap(SolutionFor(sm, meta))[1]),
             InstantiateMeta(c[3], meta, Unwrap(SolutionFor(sm, meta))[1]),
             c[4], n, sm, inp)

\* the pivot is solved: its solution is substituted on both sides and the
\* result simplified under the joined justification
VisitSolved(c, meta, sm, n, inp) ==
    LET t == Unwrap(SolutionFor(sm, meta))[1]
        j_m == Unwrap(SolutionFor(sm, meta))[2]
    IN  Simplify(InstantiateMeta(c[2], meta, t), InstantiateMeta(c[3], meta, t),
                 Join(c[4], j_m), n, sm, inp)

Visit ==
    /\ phase = "new" /\ todo # <<>>
    /\ LET cat == Head(todo)[1]
           c == Head(todo)[2]
           rest == Tail(todo)
       IN  IF IsChoice(c)
           THEN /\ phase' = "panic"
                /\ todo' = <<>>
                /\ UNCHANGED <<constraints, constraint_mapping,
                               solution_mapping, local_counter, error>>
           ELSE IF TermSize(c[2]) > MaxTermSize \/ TermSize(c[3]) > MaxTermSize
           THEN \* the terms outgrew the model: the run is followed no further
                /\ phase' = "bound"
                /\ todo' = <<>>
                /\ UNCHANGED <<constraints, constraint_mapping,
                               solution_mapping, local_counter, error>>
           ELSE
           LET r == c[2]
               s == c[3]
               j == c[4]
               pivot == PivotMeta(r, s, solution_mapping)
           IN  IF ~IsSome(pivot)
               THEN /\ phase' = "panic"
                    /\ todo' = <<>>
                    /\ UNCHANGED <<constraints, constraint_mapping,
                                   solution_mapping, local_counter, error>>
               ELSE
               LET meta == Unwrap(pivot)
                   sol == SolutionFor(solution_mapping, meta)
               IN  IF IsSome(sol)
                   THEN LET res == VisitSolved(c, meta, solution_mapping,
                                               local_counter, input)
                        IN  /\ IF res.tag = "ok"
                               THEN /\ todo' = res.cs \o rest
                                    /\ local_counter' = res.n
                                    /\ UNCHANGED <<phase, error>>
                               ELSE Ended(res)
                            /\ UNCHANGED <<constraints, constraint_mapping,
                                           solution_mapping>>
                   ELSE IF cat = "Pattern"
                   THEN IF ~PatternAccepted(r, s)
                        THEN /\ phase' = "panic"
                             /\ todo' = <<>>
                             /\ UNCHANGED <<constraints, constraint_mapping,
                                            solution_mapping, local_counter,
                                            error>>
                        ELSE LET m == PatternHead(r, s)[2]
                             IN  /\ solution_mapping' =
                                        [solution_mapping EXCEPT
                                           ![m] = Some(<<PatternSolution(r, s), j>>)]
                                 /\ todo' = Parked(constraint_mapping, m) \o rest
                                 /\ UNCHANGED <<constraints, constraint_mapping,
                                                local_counter, phase, error>>
                   ELSE /\ constraint_mapping' =
                              [constraint_mapping EXCEPT
                                 ![meta] = Append(@, Head(todo))]
                        /\ constraints' = Append(constraints, Head(todo))
                        /\ todo' = rest
                        /\ UNCHANGED <<solution_mapping, local_counter,
                                       phase, error>>
    /\ UNCHANGED <<input, next_c, replaced>>

(***************************************************************************)
(* Solver::solve: one turn of the loop over the priority queue.            *)
(***************************************************************************)
RemoveAt(q, i) == SubSeq(q, 1, i - 1) \o SubSeq(q, i + 1, Len(q))

\* BinaryHeap::pop may return any entry of the best rank
Poppable(q) ==
    { i \in 1..Len(q) : \A k \in 1..Len(q) : Rank(q[i][1]) <= Rank(q[k][1]) }

\* the two names solve compares for a FlexFlex constraint t = u
FlexFlexHeads(t, u) == <<Unwrap(TermHead(t)), Unwrap(TermHead(t))>>

\* what a popped entry makes of the run: "solve" to go on, "panic" to abort
SolvePopped(e, sm) ==
    IF IsChoice(e[2]) THEN "panic"
    ELSE IF e[1] = "FlexFlex"
    THEN LET hs == FlexFlexHeads(e[2][2], e[2][3])
         IN  IF ~IsVar(hs[1]) \/ ~IsVar(hs[2]) THEN "panic"
             ELSE IF SolutionFor(sm, hs[1][2]) = SolutionFor(sm, hs[2][2])
             THEN "solve"
             ELSE "panic"
    ELSE "panic"

SolvePop ==
    /\ phase = "solve" /\ constraints # <<>>
    /\ \E i \in Poppable(constraints) :
          /\ constraints' = RemoveAt(constraints, i)
          /\ phase' = SolvePopped(constraints[i], solution_mapping)
    /\ UNCHANGED <<input, next_c, todo, constraint_mapping, solution_mapping,
                   local_counter, error, replaced>>

\* Ok(self.solution_mapping)
SolveDone ==
    /\ phase = "solve" /\ constraints = <<>>
    /\ phase' = "ok"
    /\ UNCHANGED <<input, next_c, todo, constraints, constraint_mapping,
                   solution_mapping, local_counter, error, replaced>>

(***************************************************************************)
(* replace_metavars applied with the returned solution map.                *)
(***************************************************************************)
Replace ==
    /\ phase = "ok"
    /\ \E t \in ReplaceInputs :
          replaced' = Some(<<t, ReplaceMetavars(t, solution_mapping)>>)
    /\ phase' = "replaced"
    /\ UNCHANGED <<input, next_c, todo, constraints, constraint_mapping,
                   solution_mapping, local_counter, error>>

(***************************************************************************)
(* The surface syntax the elaborator is given (ast).                       *)
(***************************************************************************)
Unqualified(x) == <<"unq", x>>
Qualified(x) == <<"qual", x>>
Placeholder == <<"ph">>

SType == <<"Type">>
SVar(n) == <<"Var", n>>
SApp(f, a) == <<"App", f, a>>
SForall(bs, t) == <<"Forall", bs, t>>
SLambda(bs, t) == <<"Lambda", bs, t>>
\* a binder: its name and the surface term of its type
SBinder(n, ty) == <<n, ty>>

DefItem(n, args, ty, body) == <<"Def", n, args, ty, body>>
InductiveItem(n, params, ty, ctors) == <<"Inductive", n, params, ty, ctors>>
ExternItem(n, t) == <<"Extern", n, t>>
ImportItem(n) == <<"Import", n>>
CommentItem == <<"Comment">>

\* util::to_qualified_name
ToQualifiedName(n) ==
    IF n = Placeholder THEN None ELSE Some(QualName(n[2]))

\* Name::in_scope("rec") of a surface and of a core name
AstRecName(n) == <<n[1], n[2] \o ".rec">>
CoreRecName(n) == QualName(n[2] \o ".rec")

(***************************************************************************)
(* elaborate::Error                                                        *)
(***************************************************************************)
UnexpectedQualifiedName == <<"UnexpectedQualifiedName">>
UnknownVariable(n) == <<"UnknownVariable", n>>
TypeCkError == <<"TypeCk">>
InvalidImport == <<"InvalidImport">>
Many(es) == <<"Many", es>>

(***************************************************************************)
(* ElabCx and LocalElabCx.  A context value cx is the record               *)
(*   globals, constructors, mc (metavar_counter), lc (TyCtxt's counter of  *)
(*   local identities), declared (the names TyCtxt has in scope),          *)
(*   locals, ord (LocalElabCx.locals and locals_in_order).                 *)
(* An operation returns [tag, val, cx]: tag is "ok", "err" or "panic".     *)
(***************************************************************************)
EOk(v, cx) == [tag |-> "ok", val |-> v, cx |-> cx]
EErr(e, cx) == [tag |-> "err", val |-> e, cx |-> cx]
EPanic(cx) == [tag |-> "panic", val |-> <<>>, cx |-> cx]

\* ElabCx::elaborate_global_name
ElaborateGlobalName(n, cx) ==
    IF n[1] = "unq"
    THEN EOk(QualName(n[2]),
             [cx EXCEPT !.globals = (n :> QualName(n[2])) @@ cx.globals])
    ELSE EErr(UnexpectedQualifiedName, cx)

\* ElabCx::meta: the meta minted and the counter advanced
MetaOf(ty, cx) == EOk(MetaName(cx.mc, ty), [cx EXCEPT !.mc = @ + 1])

\* try!(r) followed by the rest K of the function: an Err (or a panic)
\* leaves the function at once, with the context as it stands
Try(r, K(_)) == IF r.tag # "ok" THEN r ELSE K(r)

\* ElabCx::make_placeholder
MakePlaceholder(cx) ==
    Try(MetaOf(TypeT, cx), LAMBDA ty : MetaOf(Var(ty.val), ty.cx))

\* LocalElabCx::meta_in_context
MetaInContext(ty, cx) ==
    EOk(ApplyAll(Var(MetaName(cx.mc, AbstractPi(cx.ord, ty))),
                 [i \in 1..Len(cx.ord) |-> Var(cx.ord[i])]),
        [cx EXCEPT !.mc = @ + 1])

\* the core name of a surface name that no table of the elaborator knows
CoreNameOf(n, p) ==
    IF IsSome(ToQualifiedName(n)) THEN Unwrap(ToQualifiedName(n)) ELSE p.val

\* LocalElabCx::elaborate_name; p is the placeholder made at its start when
\* the name is the placeholder
ElaborateNameWith(n, cx, p) ==
    IF n \in DOMAIN cx.locals THEN EOk(cx.locals[n], p.cx)
    ELSE IF n \in DOMAIN cx.globals THEN EOk(cx.globals[n], p.cx)
    ELSE IF CoreNameOf(n, p) \in cx.declared \/ NameIsMeta(CoreNameOf(n, p))
    THEN EOk(CoreNameOf(n, p), p.cx)
    ELSE EErr(UnknownVariable(n), p.cx)

ElaborateName(n, cx) ==
    ElaborateNameWith(n, cx,
        IF n = Placeholder THEN MakePlaceholder(cx) ELSE EOk(<<>>, cx))

\* TyCtxt::local_with_repr: a local of a fresh identity
LocalWithRepr(ty, cx) == EOk(LocalName(cx.lc, ty), [cx EXCEPT !.lc = @ + 1])

\* the scope with one more binder
PushLocal(name, l) ==
    [l.cx EXCEPT !.locals = (name :> l.val) @@ @, !.ord = Append(@, l.val)]

\* the end of enter_scope after a body that returned Ok
RestoreScope(old, cx) == [cx EXCEPT !.locals = old.locals, !.ord = old.ord]

RECURSIVE ElaborateTerm(_, _)
RECURSIVE EnterBinders(_, _, _)

\* LocalElabCx::enter_scope, the loop over the binders: val is the list of
\* the locals made
EnterBinders(bs, cx, acc) ==
    IF bs = <<>> THEN EOk(acc, cx)
    ELSE IF Head(bs)[1][1] = "qual" THEN EPanic(cx)
    ELSE Try(ElaborateTerm(Head(bs)[2], cx), LAMBDA et :
         Try(LocalWithRepr(et.val, et.cx), LAMBDA l :
         EnterBinders(Tail(bs), PushLocal(Head(bs)[1], l),
                      Append(acc, l.val))))

\* LocalElabCx::elaborate_term
ElaborateTerm(t, cx) ==
    CASE t[1] = "Type" -> EOk(TypeT, cx)
      [] t[1] = "Var" ->
           Try(ElaborateName(t[2], cx), LAMBDA n : EOk(Var(n.val), n.cx))
      [] t[1] = "App" ->
           Try(ElaborateTerm(t[2], cx), LAMBDA f :
           Try(ElaborateTerm(t[3], f.cx), LAMBDA a :
           EOk(App(f.val, a.val), a.cx)))
      [] t[1] = "Forall" ->
           Try(EnterBinders(t[2], cx, <<>>), LAMBDA bs :
           Try(ElaborateTerm(t[3], bs.cx), LAMBDA b :
           EOk(AbstractPi(bs.val, b.val), RestoreScope(cx, b.cx))))
      [] t[1] = "Lambda" ->
           Try(EnterBinders(t[2], cx, <<>>), LAMBDA bs :
           Try(ElaborateTerm(t[3], bs.cx), LAMBDA b :
           EOk(AbstractLambda(bs.val, b.val), RestoreScope(cx, b.cx))))
      [] OTHER -> EPanic(cx)

\* LocalElabCx::from_elab_cx: an empty local scope
FromElabCx(cx) == [cx EXCEPT !.locals = <<>>, !.ord = <<>>]

\* ElabCx::elaborate_fn; val is <<"Fn", name, args, ret_ty, body>>
ElaborateFn(item, cx) ==
    Try(EnterBinders(item[3], FromElabCx(cx), <<>>), LAMBDA bs :
    Try(ElaborateGlobalName(item[2], bs.cx), LAMBDA name :
    Try(ElaborateTerm(item[4], name.cx), LAMBDA ty :
    Try(ElaborateTerm(item[5], ty.cx), LAMBDA b :
    EOk(<<"Fn", name.val, bs.val, AbstractPi(bs.val, ty.val),
          AbstractLambda(bs.val, b.val)>>,
        RestoreScope(FromElabCx(cx), b.cx))))))

\* LocalElabCx::elaborate_ctor, for each constructor in turn
RECURSIVE ElaborateCtors(_, _, _, _)
ElaborateCtors(ctors, params, cx, acc) ==
    IF ctors = <<>> THEN EOk(acc, cx)
    ELSE Try(ElaborateGlobalName(Head(ctors)[1], cx), LAMBDA name :
         Try(ElaborateTerm(Head(ctors)[2], name.cx), LAMBDA ty :
         ElaborateCtors(Tail(ctors), params, ty.cx,
             Append(acc, <<name.val, AbstractPi(params, ty.val)>>))))

\* the recursor's name, put in globals by elaborate_data
WithRecursor(n, name) ==
    [name.cx EXCEPT
       !.globals = (AstRecName(n) :> CoreRecName(name.val)) @@ @]

\* ElabCx::elaborate_data; val is <<"Data", name, params, ty, ctors>>
ElaborateData(item, cx) ==
    Try(ElaborateGlobalName(item[2], cx), LAMBDA name :
    Try(EnterBinders(item[3], FromElabCx(WithRecursor(item[2], name)), <<>>),
        LAMBDA bs :
    Try(ElaborateCtors(item[5], bs.val, bs.cx, <<>>), LAMBDA cs :
    Try(ElaborateTerm(item[4], cs.cx), LAMBDA ty :
    EOk(<<"Data", name.val, bs.val, AbstractPi(bs.val, ty.val), cs.val>>,
        RestoreScope(FromElabCx(cx), ty.cx))))))

\* ElabCx::elaborate_extern; val is <<"Extern", name, term>>
ElaborateExtern(item, cx) ==
    Try(ElaborateGlobalName(item[2], cx), LAMBDA name :
    Try(ElaborateTerm(item[3], FromElabCx(name.cx)), LAMBDA t :
    EOk(<<"Extern", name.val, t.val>>, t.cx)))

\* ElabCx::elaborate_def; val is None for a comment or an import
ElaborateDef(item, cx) ==
    CASE item[1] = "Inductive" ->
           Try(ElaborateData(item, cx), LAMBDA d : EOk(Some(d.val), d.cx))
      [] item[1] = "Def" ->
           Try(ElaborateFn(item, cx), LAMBDA f : EOk(Some(f.val), f.cx))
      [] item[1] = "Extern" ->
           Try(ElaborateExtern(item, cx), LAMBDA e : EOk(Some(e.val), e.cx))
      [] OTHER -> EOk(None, cx)

\* the names a core item brings into scope of TyCtxt
DeclaredBy(edef) ==
    IF edef[1] = "Data"
    THEN {edef[2], CoreRecName(edef[2])}
         \cup {edef[5][i][1] : i \in 1..Len(edef[5])}
    ELSE {edef[2]}

\* From<typeck::Error> for elaborate::Error
FromTypeck == TypeCkError

\* the error elaborate_import returns when the loader rejects the module
ImportError == FromTypeck

(***************************************************************************)
(* The surface modules given to the elaborator.                            *)
(***************************************************************************)
NameA == Unqualified("A")
NameX == Unqualified("x")
NameF == Unqualified("f")
NameG == Unqualified("g")
NameH == Unqualified("h")
NameU == Unqualified("u")
NameN == Unqualified("N")
NameZero == Unqualified("zero")
ModuleName == Unqualified("M")

ItemPool ==
    { \* def f (A : Type) (x : A) : A := x
      DefItem(NameF, <<SBinder(NameA, SType), SBinder(NameX, SVar(NameA))>>,
              SVar(NameA), SVar(NameX)),
      \* def g (x : Type) : Type := _
      DefItem(NameG, <<SBinder(NameX, SType)>>, SType, SVar(Placeholder)),
      \* def g : Type := _
      DefItem(NameG, <<>>, SType, SVar(Placeholder)),
      \* def g (_ : Type) : Type := _
      DefItem(NameG, <<SBinder(Placeholder, SType)>>, SType, SVar(Placeholder)),
      \* def f : Type := u          (u is bound nowhere)
      DefItem(NameF, <<>>, SType, SVar(NameU)),
      \* def h : Type := f
      DefItem(NameH, <<>>, SType, SVar(NameF)),
      \* def h : Type := (fun (x : Type) => u) Type
      DefItem(NameH, <<>>, SType,
              SApp(SLambda(<<SBinder(NameX, SType)>>, SVar(NameU)), SType)),
      \* def h (x : Type) (y : u) : Type := x
      DefItem(NameH, <<SBinder(NameX, SType), SBinder(Unqualified("y"), SVar(NameU))>>,
              SType, SVar(NameX)),
      \* def h : Type := zero
      DefItem(NameH, <<>>, SType, SVar(NameZero)),
      \* inductive N : Type { zero : N }
      InductiveItem(NameN, <<>>, SType, <<<<NameZero, SVar(NameN)>>>>),
      \* extern u : Type
      ExternItem(NameU, SType),
      ImportItem(Unqualified("lib")),
      CommentItem }

\* the names a loaded import registers in TyCtxt
ImportedNames(n) == {QualName(n[2])}

(***************************************************************************)
(* ElabCx::elaborate_module.                                               *)
(***************************************************************************)
VARIABLES
    items,      \* module.items
    item_idx,   \* the position of the loop over the items
    ecx,        \* the ElabCx (and the local scope the last elaborator left)
    errors,     \* the errors vector
    defs,       \* the defs vector
    imports,    \* the imports vector
    last,       \* what elaborate_def returned for the last item
    ephase,     \* "start", "items", or how the call ended
    eresult     \* the value elaborate_module returned

evars == <<items, item_idx, ecx, errors, defs, imports, last, ephase, eresult>>

\* ElabCx::from_module
EmptyElabCx ==
    [globals |-> <<>>, constructors |-> {}, mc |-> 0, lc |-> 0,
     declared |-> {}, locals |-> <<>>, ord |-> <<>>]

ElabInit ==
    /\ items \in SeqsOf(ItemPool, MaxItems) \ {<<>>}
    /\ item_idx = 1
    /\ ecx = EmptyElabCx
    /\ errors = <<>>
    /\ defs = <<>>
    /\ imports = <<>>
    /\ last = None
    /\ ephase = "start"
    /\ eresult = None

ModuleNamed(name) ==
    IF name.tag = "ok"
    THEN /\ ecx' = name.cx
         /\ ephase' = "items"
         /\ eresult' = eresult
    ELSE /\ ecx' = name.cx
         /\ ephase' = "done"
         /\ eresult' = Some(<<"err", name.val>>)

\* the module's own name
ModuleStart ==
    /\ ephase = "start"
    /\ ModuleNamed(ElaborateGlobalName(ModuleName, ecx))
    /\ UNCHANGED <<items, item_idx, errors, defs, imports, last>>

\* the constructor names of an item, registered before it is elaborated
CtorNames(item) ==
    IF item[1] = "Inductive"
    THEN {item[5][i][1] : i \in 1..Len(item[5])}
    ELSE {}

\* the call ends inside the loop with Err(e)
Abort(e, cx) ==
    /\ ephase' = "done"
    /\ eresult' = Some(<<"err", e>>)
    /\ ecx' = cx
    /\ UNCHANGED <<item_idx, errors, defs, last>>

\* the context in which an item is elaborated: its constructor names are
\* registered, and an import the loader accepts is in scope
ItemCx(item, loads) ==
    [ecx EXCEPT
       !.constructors = @ \cup CtorNames(item),
       !.declared = IF item[1] = "Import" /\ loads
                    THEN @ \cup ImportedNames(item[2]) ELSE @]

\* the rest of a turn of the loop, given what elaborate_def returned
ElabItemResult(r) ==
    IF r.tag = "panic"
    THEN /\ ephase' = "panic"
         /\ ecx' = r.cx
         /\ UNCHANGED <<item_idx, errors, defs, last, eresult>>
    ELSE IF r.tag = "err"
    THEN /\ errors' = Append(errors, r.val)
         /\ last' = Some(<<"err", r.val>>)
         /\ ecx' = r.cx
         /\ item_idx' = item_idx + 1
         /\ UNCHANGED <<defs, ephase, eresult>>
    ELSE IF ~IsSome(r.val)
    THEN /\ last' = Some(<<"ok", None>>)
         /\ ecx' = r.cx
         /\ item_idx' = item_idx + 1
         /\ UNCHANGED <<errors, defs, ephase, eresult>>
    ELSE IF Unwrap(r.val)[1] = "Data" /\ Unwrap(r.val)[2] \in r.cx.declared
    THEN \* declare_datatype fails on a duplicate declaration
         Abort(FromTypeck, r.cx)
    ELSE /\ ecx' = [r.cx EXCEPT !.declared = @ \cup DeclaredBy(Unwrap(r.val))]
         /\ defs' = Append(defs, Unwrap(r.val))
         /\ last' = Some(<<"ok", r.val>>)
         /\ item_idx' = item_idx + 1
         /\ UNCHANGED <<errors, ephase, eresult>>

\* one turn of the loop over module.items; loads tells whether the module
\* loader accepts an import
ElabItemWith(item, loads) ==
    IF item[1] = "Import" /\ ~IsSome(ToQualifiedName(item[2]))
    THEN /\ ephase' = "panic"
         /\ UNCHANGED <<ecx, item_idx, errors, defs, imports, last, eresult>>
    ELSE IF item[1] = "Import" /\ ~loads
    THEN /\ Abort(ImportError, ItemCx(item, loads))
         /\ UNCHANGED imports
    ELSE /\ imports' = IF item[1] = "Import"
                       THEN Append(imports, Unwrap(ToQualifiedName(item[2])))
                       ELSE imports
         /\ ElabItemResult(ElaborateDef(item, ItemCx(item, loads)))

ElabItem ==
    /\ ephase = "items" /\ item_idx <= Len(items)
    /\ \E loads \in BOOLEAN : ElabItemWith(items[item_idx], loads)
    /\ UNCHANGED items

\* after the loop: Error::Many, or the type check of the assembled module
ElabFinish ==
    /\ ephase = "items" /\ item_idx > Len(items)
    /\ ephase' = "done"
    /\ IF errors # <<>>
       THEN eresult' = Some(<<"err", Many(errors)>>)
       ELSE \E checks \in BOOLEAN :
               eresult' = IF checks THEN Some(<<"ok", defs, imports>>)
                          ELSE Some(<<"err", FromTypeck>>)
    /\ UNCHANGED <<items, item_idx, ecx, errors, defs, imports, last>>

(***************************************************************************)
(* Single calls of simplify and of replace_metavars, on terms and solution *)
(* maps of every shape the rules distinguish.                              *)
(***************************************************************************)
GRec == Var(RecName)
GCtor == Var(CtorName)

\* forall (x : Type). x,  forall (x : Type). F x,  forall (x : Type). ?1 x,
\* forall (x : ?2 a). x,  forall (x : G). G,  forall (x : Type) (y : x). x
ForallTerms ==
    { Pi(TypeT, BVar(0)), Pi(TypeT, App(GF, BVar(0))),
      Pi(TypeT, App(M1, BVar(0))), Pi(App(M2, La), BVar(0)), Pi(GG, GG),
      Pi(TypeT, Pi(BVar(0), BVar(1))) }

\* rec a, rec b, rec ?2, rec (?1 a), rec a b: spines of a reducible global
\* that cannot take a step
RecTerms ==
    { App(GRec, La), App(GRec, Lb), App(GRec, M2), App(GRec, App(M1, La)),
      ApplyAll(GRec, <<La, Lb>>) }

\* F a, F b, G, ?1 a, a a, a b, rec c, (fun (x : Type) => x) G
OtherTerms ==
    { App(GF, La), App(GF, Lb), GG, App(M1, La), App(La, La), App(La, Lb),
      App(GRec, GCtor), App(Lam(TypeT, BVar(0)), GG) }

SimplifyTerms == ForallTerms \cup RecTerms \cup OtherTerms

NoSolutions == [m \in MetaNames |-> None]

\* the states of solution_mapping simplify is called in
SimplifyMaps ==
    { NoSolutions,
      [NoSolutions EXCEPT ![M2[2]] = Some(<<GG, {1}>>)],
      [m \in MetaNames |-> Some(<<Lam(TypeT, App(GF, BVar(0))), {1}>>)] }

\* forall (x : ?2 a). ?1 x  and  fun (x : ?1 a) => ?2
ReplaceTerms ==
    { ApplyAll(M1, <<La, Lb>>), App(M2, La), App(GF, M2), App(GF, La),
      Pi(App(M2, La), App(M1, BVar(0))), Lam(App(M1, La), M2) }

\* what a map may hold for a meta: nothing, G, fun (x : Type) => F x, F ?2
SolutionChoices ==
    { None, Some(<<GG, {1}>>), Some(<<Lam(TypeT, App(GF, BVar(0))), {1}>>),
      Some(<<App(GF, M2), {1}>>) }

ReplaceMaps == [MetaNames -> SolutionChoices]

\* the local counter of TyCtxt when simplify is called
FirstFresh == 3

VARIABLES
    fn_call,    \* the call made: the function and its arguments
    fn_result,  \* what the call returned
    fn_again    \* replace_metavars applied to its own result

fvars == <<fn_call, fn_result, fn_again>>

FnIdle == fn_call = <<"none">> /\ fn_result = None /\ fn_again = None

FnInit ==
    /\ fn_call \in
         { <<"simplify", t, u, sm>> :
               t \in SimplifyTerms, u \in SimplifyTerms, sm \in SimplifyMaps }
         \cup { <<"replace", t, sm>> : t \in ReplaceTerms, sm \in ReplaceMaps }
    /\ fn_result = None
    /\ fn_again = None

\* simplify(t, u, j) where j is Asserted of t and u
CallSimplify ==
    /\ fn_call[1] = "simplify" /\ fn_result = None
    /\ fn_result' = Some(Simplify(fn_call[2], fn_call[3], {1}, FirstFresh,
                                  fn_call[4],
                                  <<<<"unif", fn_call[2], fn_call[3]>>>>))
    /\ UNCHANGED <<fn_call, fn_again>>

\* replace_metavars(t, map)
CallReplace ==
    /\ fn_call[1] = "replace" /\ fn_result = None
    /\ fn_result' = Some(ReplaceMetavars(fn_call[2], fn_call[3]))
    /\ UNCHANGED <<fn_call, fn_again>>

\* replace_metavars(t', map) for the t' a first call returned
CallReplaceAgain ==
    /\ fn_call[1] = "replace" /\ IsSome(fn_result) /\ fn_again = None
    /\ Unwrap(fn_result)[1] = "ok"
    /\ fn_again' = Some(ReplaceMetavars(Unwrap(fn_result)[2], fn_call[3]))
    /\ UNCHANGED <<fn_call, fn_result>>

(***************************************************************************)
(* The specifications: a run of the solver, a run of the elaborator, and   *)
(* single calls of the solver's functions.                                 *)
(***************************************************************************)
vars == <<svars, evars, fvars>>

SolverIdle ==
    /\ input = <<>> /\ next_c = 1 /\ todo = <<>> /\ constraints = <<>>
    /\ constraint_mapping = [m \in MetaNames |-> <<>>]
    /\ solution_mapping = [m \in MetaNames |-> None]
    /\ local_counter = 3 /\ phase = "idle" /\ error = {} /\ replaced = None

ElabIdle ==
    /\ items = <<>> /\ item_idx = 1 /\ ecx = EmptyElabCx /\ errors = <<>>
    /\ defs = <<>> /\ imports = <<>> /\ last = None /\ ephase = "idle"
    /\ eresult = None

Init == SolverInit /\ ElabIdle /\ FnIdle
Next ==
    \/ NewTake /\ UNCHANGED <<evars, fvars>>
    \/ NewDone /\ UNCHANGED <<evars, fvars>>
    \/ Visit /\ UNCHANGED <<evars, fvars>>
    \/ SolvePop /\ UNCHANGED <<evars, fvars>>
    \/ SolveDone /\ UNCHANGED <<evars, fvars>>
    \/ Replace /\ UNCHANGED <<evars, fvars>>
Spec == Init /\ [][Next]_vars

ElabNext ==
    \/ ModuleStart /\ UNCHANGED <<svars, fvars>>
    \/ ElabItem /\ UNCHANGED <<svars, fvars>>
    \/ ElabFinish /\ UNCHANGED <<svars, fvars>>
ElabSpecInit == ElabInit /\ SolverIdle /\ FnIdle
ElabSpec == ElabSpecInit /\ [][ElabNext]_vars

FnNext ==
    \/ CallSimplify /\ UNCHANGED <<svars, evars>>
    \/ CallReplace /\ UNCHANGED <<svars, evars>>
    \/ CallReplaceAgain /\ UNCHANGED <<svars, evars>>
FnSpecInit == FnInit /\ SolverIdle /\ ElabIdle
FnSpec == FnSpecInit /\ [][FnNext]_vars

(***************************************************************************)
(* The properties checked of the solver (under Spec).                      *)
(***************************************************************************)
\* the one input constraint is a meta applied to distinct locals on the
\* left and a rigid term without metas on the right
PatternInput ==
    /\ Len(input) = 1 /\ ~IsChoice(input[1])
    /\ IsPatternSide(input[1][2]) /\ ArgsOf(input[1][2]) # <<>>
    /\ HeadIsGlobal(input[1][3]) /\ MetasOf(input[1][3]) = {}

\* the names of the locals of a spine, in spine order
SpineNames(t) == [i \in 1..Len(ArgsOf(t)) |-> ArgsOf(t)[i][2]]

\* C1: for the single input constraint ?m a b = F a b (?m unsolved, a and b
\* distinct locals, F rigid), Solver::new and solve end without a failure,
\* and the returned map binds ?m to the right-hand side abstracted over
\* exactly the locals of the spine in spine order: \a b. F a b.
C1_PatternUnificationSolves ==
    PatternInput =>
        /\ phase \in {"new", "solve", "ok", "replaced"}
        /\ phase \in {"ok", "replaced"} =>
              /\ solution_mapping[HeadOf(input[1][2])[2]] =
                   Some(<<AbstractLambda(SpineNames(input[1][2]), input[1][3]),
                          {1}>>)
              /\ input[1] = <<"unif", ApplyAll(M1, <<La, Lb>>),
                              ApplyAll(GF, <<La, Lb>>)>> =>
                   solution_mapping[M1[2]] =
                     Some(<<Lam(TypeT, Lam(TypeT,
                              App(App(GF, BVar(1)), BVar(0)))), {1}>>)

\* C1 happens: solve returned the map for the input ?1 a b = F a b
C1_Witness ==
    /\ phase = "ok"
    /\ input = <<<<"unif", ApplyAll(M1, <<La, Lb>>), ApplyAll(GF, <<La, Lb>>)>>>>
    /\ IsSome(solution_mapping[M1[2]])

\* C2: when solve pops a unification constraint whose category is not
\* FlexFlex, the solver goes on with the next queue entry: the pop does not
\* by itself abort the run.
C2_PopOfOtherCategoryContinues ==
    [][\A i \in 1..Len(constraints) :
          ( /\ phase = "solve"
            /\ constraints' = RemoveAt(constraints, i)
            /\ ~IsChoice(constraints[i][2])
            /\ constraints[i][1] # "FlexFlex" )
          => phase' = "solve"]_vars

\* C3: when solve pops a FlexFlex constraint t = u, it goes on exactly when
\* the solution of t's head meta equals the solution of u's head meta (both
\* may be absent), and fails when they differ.
C3_FlexFlexComparesBothHeads ==
    [][\A i \in 1..Len(constraints) :
          ( /\ phase = "solve"
            /\ constraints' = RemoveAt(constraints, i)
            /\ ~IsChoice(constraints[i][2])
            /\ constraints[i][1] = "FlexFlex" )
          => phase' =
               IF SolutionFor(solution_mapping,
                              HeadOf(constraints[i][2][2])[2])
                  = SolutionFor(solution_mapping,
                                HeadOf(constraints[i][2][3])[2])
               THEN "solve" ELSE "panic"]_vars

\* C4: every categorized unification constraint that simplify returned and
\* that is about to be visited has a side stuck on a meta.
C4_SimplifiedConstraintsAreStuck ==
    \A i \in 1..Len(todo) :
        ~IsChoice(todo[i][2]) =>
            IsSome(IsStuck(todo[i][2][2])) \/ IsSome(IsStuck(todo[i][2][3]))

\* a visit that ends where it began: the constraint to visit has a solved
\* pivot, and substituting the solution and simplifying returns this very
\* constraint, with nothing else changed
VisitRepeats ==
    /\ phase = "new" /\ todo # <<>> /\ ~IsChoice(Head(todo)[2])
    /\ TermSize(Head(todo)[2][2]) <= MaxTermSize
    /\ TermSize(Head(todo)[2][3]) <= MaxTermSize
    /\ IsSome(PivotMeta(Head(todo)[2][2], Head(todo)[2][3], solution_mapping))
    /\ IsSome(SolutionFor(solution_mapping,
           Unwrap(PivotMeta(Head(todo)[2][2], Head(todo)[2][3],
                            solution_mapping))))
    /\ VisitSolved(Head(todo)[2],
                   Unwrap(PivotMeta(Head(todo)[2][2], Head(todo)[2][3],
                                    solution_mapping)),
                   solution_mapping, local_counter, input)
         = SimpOk(<<Head(todo)>>, local_counter)

\* C5: Solver::new followed by solve terminates on every input on which
\* eval terminates: no visit leads back to the state it started from.
C5_NoVisitRepeatsItself == ~VisitRepeats

\* C6: after a successful solve, replace_metavars applied to a term all of
\* whose metas are keys of the returned map yields a term with no meta.
C6_ReplacedTermHasNoMeta ==
    ( /\ phase = "replaced"
      /\ \A m \in MetasOf(Unwrap(replaced)[1]) : IsSome(solution_mapping[m]) )
    => /\ Unwrap(replaced)[2][1] = "ok"
       /\ MetasOf(Unwrap(replaced)[2][2]) = {}

\* C7: replace_metavars applied to a term with a meta that has no entry in
\* the map returns an Err to its caller.
C7_MissingSolutionIsAnErr ==
    ( /\ phase = "replaced"
      /\ \E m \in MetasOf(Unwrap(replaced)[1]) : ~IsSome(solution_mapping[m]) )
    => Unwrap(replaced)[2][1] = "err"

\* C8: every solution recorded in solution_mapping is closed: it has no
\* free local variable.
C8_SolutionsAreClosed ==
    \A m \in MetaNames :
        IsSome(solution_mapping[m]) =>
            FreeLocals(Unwrap(solution_mapping[m])[1]) = {}

(***************************************************************************)
(* The properties checked of the elaborator (under ElabSpec).              *)
(***************************************************************************)
\* the item the loop has just finished
LastItem == items[item_idx - 1]

\* the metas a module of MaxItems items can mint
MetaNumbers == 0..(2 * MaxItems + 1)

\* C9: a Placeholder elaborated in the local context [l1, ..., ln] becomes
\* a fresh meta of type (forall l1 ... ln. T), T a fresh meta of type Type,
\* applied to l1 ... ln in binder order.  Checked of the body `_` of a
\* definition whose binders are all named: the elaborated body is the
\* abstraction over the binders of that application.
C9_PlaceholderIsMetaInContext ==
    ( /\ ephase = "items" /\ item_idx > 1
      /\ LastItem[1] = "Def" /\ LastItem[5] = SVar(Placeholder)
      /\ \A i \in 1..Len(LastItem[3]) : LastItem[3][i][1] # Placeholder
      /\ IsSome(last) /\ Unwrap(last)[1] = "ok" )
    => \E k, kt \in MetaNumbers :
          Unwrap(Unwrap(last)[2])[5] =
            AbstractLambda(Unwrap(Unwrap(last)[2])[3],
              ApplyAll(Var(MetaName(k,
                         AbstractPi(Unwrap(Unwrap(last)[2])[3],
                                    Var(MetaName(kt, TypeT))))),
                       [i \in 1..Len(Unwrap(Unwrap(last)[2])[3]) |->
                          Var(Unwrap(Unwrap(last)[2])[3][i])]))

\* C10: elaborate_module returns only after the loop has gone through every
\* item, and when an item failed the result is Error::Many of the errors
\* of the failing items in item order.
C10_ErrorsAreAccumulated ==
    ephase = "done" =>
        /\ item_idx > Len(items)
        /\ errors # <<>> => eresult = Some(<<"err", Many(errors)>>)

\* the loop has just elaborated a definition or an inductive type: the
\* outermost enter_scope of the item has returned
ScopeReturned ==
    /\ ephase \in {"items", "done"} /\ item_idx > 1 /\ IsSome(last)
    /\ LastItem[1] \in {"Def", "Inductive"}

\* C11: when the outermost enter_scope of an item has returned, with Ok or
\* with Err, locals and locals_in_order are what they were before the call:
\* empty, as from_elab_cx made them.
C11_EnterScopeRestoresScope ==
    ScopeReturned => ecx.locals = <<>> /\ ecx.ord = <<>>

(***************************************************************************)
(* Further properties of the solver (under Spec).                          *)
(***************************************************************************)
\* the input sequence holds a Choice constraint
HasChoice == \E i \in 1..Len(input) : IsChoice(input[i])

\* C12: a Choice constraint is never passed over: for an input sequence
\* that holds one, Solver::new never returns a solver and solve never
\* returns a map; the loop of Solver::new cannot run off the end of the
\* input.
C12_ChoiceNeverSkipped ==
    HasChoice =>
        /\ phase \in {"new", "panic", "err", "diverge", "bound"}
        /\ ~(phase = "new" /\ todo = <<>> /\ next_c > Len(input))

\* C12 happens: the run reached the Choice after a constraint it solved,
\* and failed there
C12_Witness ==
    /\ input = <<<<"unif", ApplyAll(M1, <<La, Lb>>), ApplyAll(GF, <<La, Lb>>)>>,
                 ChoiceC>>
    /\ phase = "panic"
    /\ IsSome(solution_mapping[M1[2]])

\* t and u differ, no decomposition rule of simplify applies to them and
\* neither is stuck on a meta
Mismatch(t, u) ==
    /\ t # u
    /\ ~IsBiReducible(t) /\ ~IsBiReducible(u)
    /\ ~(HeadIsLocal(t) /\ HeadIsLocal(u) /\ HeadOf(t) = HeadOf(u))
    /\ ~(HeadIsGlobal(t) /\ HeadIsGlobal(u) /\ HeadOf(t) = HeadOf(u))
    /\ ~(IsForall(t) /\ IsForall(u))
    /\ ~IsSome(IsStuck(t)) /\ ~IsSome(IsStuck(u))

\* C13: when Solver::new takes in a constraint t = u that is such a
\* mismatch, simplify returns Err(Error::Justification) of the constraint's
\* justification, and Solver::new returns that error at once: nothing is
\* left to visit and no later constraint is taken in.
C13_MismatchIsAnErr ==
    [][( /\ phase = "new" /\ todo = <<>> /\ next_c <= Len(input)
         /\ next_c' = next_c + 1
         /\ ~IsChoice(input[next_c])
         /\ Mismatch(input[next_c][2], input[next_c][3]) )
       => /\ phase' = "err"
          /\ error' = {next_c}
          /\ todo' = <<>>]_vars

(***************************************************************************)
(* The properties checked of single calls (under FnSpec).                  *)
(***************************************************************************)
\* simplify was called and has returned
SimplifyReturned == fn_call[1] = "simplify" /\ IsSome(fn_result)

\* the justification and the cited constraint of the call
CallInput == <<<<"unif", fn_call[2], fn_call[3]>>>>

\* the local the forall rule makes: fresh, of the type of the first binder
ForallLocal == Var(LocalName(FirstFresh, fn_call[2][2]))

\* simplify of the two binder types
BinderTypeConstraints ==
    Simplify(fn_call[2][2], fn_call[3][2], {1}, FirstFresh + 1, fn_call[4],
             CallInput)

\* simplify of the two bodies, both instantiated with the one local
BodyConstraints ==
    Simplify(Subst(fn_call[2][3], ForallLocal, 0),
             Subst(fn_call[3][3], ForallLocal, 0), {1},
             BinderTypeConstraints.n, fn_call[4], CallInput)

\* C14: simplify of two different foralls (x : A). B and (x : A'). B'
\* returns the constraints of simplify(A, A', j) followed by those of
\* simplify(B[l/x], B'[l/x], j), l one fresh local used for both bodies (and
\* the failure of the first of the two that fails).
C14_ForallDecomposition ==
    ( /\ SimplifyReturned
      /\ IsForall(fn_call[2]) /\ IsForall(fn_call[3])
      /\ fn_call[2] # fn_call[3] )
    => /\ Unwrap(fn_result) =
            IF BinderTypeConstraints.tag # "ok" THEN BinderTypeConstraints
            ELSE IF BodyConstraints.tag # "ok" THEN BodyConstraints
            ELSE SimpOk(BinderTypeConstraints.cs \o BodyConstraints.cs,
                        BodyConstraints.n)
       /\ ( /\ fn_call[2] = Pi(App(M2, La), BVar(0))
            /\ fn_call[3] = Pi(TypeT, App(M1, BVar(0))) )
          => Unwrap(fn_result).cs =
               << <<"Pattern", Unification(App(M2, La), TypeT, {1})>>,
                  <<"Pattern",
                    Unification(Var(LocalName(FirstFresh, App(M2, La))),
                                App(M1, Var(LocalName(FirstFresh,
                                                      App(M2, La)))),
                                {1})>> >>

\* C14 happens: forall (x : ?2 a). x  against  forall (x : Type). ?1 x gave
\* a constraint for the binder types and one for the bodies
C14_Witness ==
    /\ SimplifyReturned
    /\ fn_call[2] = Pi(App(M2, La), BVar(0))
    /\ fn_call[3] = Pi(TypeT, App(M1, BVar(0)))
    /\ Unwrap(fn_result).tag = "ok" /\ Len(Unwrap(fn_result).cs) = 2

\* C15: simplify(t, t, j) returns the empty list of constraints, whatever t
\* is (reducible, stuck, a spine of a reducible global, a forall) and
\* whatever solutions the solver holds, and makes no local.
C15_EqualTermsGiveNoConstraint ==
    (SimplifyReturned /\ fn_call[2] = fn_call[3])
    => Unwrap(fn_result) = SimpOk(<<>>, FirstFresh)

\* C15 happens: simplify(rec a, rec a, j) returned the empty list
C15_Witness ==
    /\ SimplifyReturned
    /\ fn_call[2] = App(GRec, La) /\ fn_call[3] = App(GRec, La)
    /\ Unwrap(fn_result).tag = "ok" /\ Unwrap(fn_result).cs = <<>>

\* simplify was given two different terms that cannot take a step and have
\* the same global head, which is bi-reducible
SameReducibleHead ==
    /\ SimplifyReturned
    /\ fn_call[2] # fn_call[3]
    /\ ~IsBiReducible(fn_call[2]) /\ ~IsBiReducible(fn_call[3])
    /\ HeadIsGlobal(fn_call[2]) /\ HeadIsGlobal(fn_call[3])
    /\ HeadOf(fn_call[2]) = HeadOf(fn_call[3])
    /\ TermIsBiReducible(HeadOf(fn_call[2]))

\* C16: given two different terms with the same bi-reducible global head
\* and no meta in either spine, simplify does not abort: it returns
\* constraints or an error.
C16_ReducibleHeadIsUnfolded ==
    (SameReducibleHead /\ MetasOf(fn_call[2]) = {} /\ MetasOf(fn_call[3]) = {})
    => Unwrap(fn_result).tag \in {"ok", "err"}

\* C17: given two terms with the same bi-reducible global head and a meta
\* in a spine, simplify returns the constraint itself, parked as one
\* flex-rigid constraint.
C17_ReducibleHeadWithMetaIsParked ==
    (SameReducibleHead /\ MetasOf(fn_call[2]) \cup MetasOf(fn_call[3]) # {})
    => Unwrap(fn_result) =
         SimpOk(<<<<"FlexRigid",
                    Unification(fn_call[2], fn_call[3], {1})>>>>, FirstFresh)

(***************************************************************************)
(* Further properties of the elaborator (under ElabSpec).                  *)
(***************************************************************************)
\* C18: once the per-item elaborator has run on an item, the constructor
\* set holds the constructor names of every Inductive item of the module,
\* later ones included, and every Import item of the module is resolved.
C18_PreScanBeforeItems ==
    (ephase = "items" /\ item_idx > 1) =>
        \A i \in 1..Len(items) :
            /\ CtorNames(items[i]) \subseteq ecx.constructors
            /\ items[i][1] = "Import" =>
                 \E k \in 1..Len(imports) :
                     imports[k] = Unwrap(ToQualifiedName(items[i][2]))

\* elaborate_module returned from inside the loop, at an Import item: the
\* module loader rejected the import
ImportRejected ==
    /\ ephase = "done" /\ item_idx <= Len(items)
    /\ items[item_idx][1] = "Import"

\* C19: when the module loader rejects an import, elaborate_module returns
\* the error InvalidImport.
C19_RejectedImportIsInvalidImport ==
    ImportRejected => eresult = Some(<<"err", InvalidImport>>)

(***************************************************************************)
(* Further properties of single calls (under FnSpec).                      *)
(***************************************************************************)
\* replace_metavars was called on a term all of whose metas the map binds,
\* with a map whose solutions hold no meta
ReplaceWithClosedMap ==
    /\ fn_call[1] = "replace" /\ IsSome(fn_result)
    /\ \A m \in MetasOf(fn_call[2]) : IsSome(fn_call[3][m])
    /\ \A m \in MetaNames :
          IsSome(fn_call[3][m]) => MetasOf(Unwrap(fn_call[3][m])[1]) = {}

\* C20: for a term t and a map that binds all metas of t and whose
\* solutions hold no meta, replace_metavars returns a term, and
\* replace_metavars applied to that term returns it unchanged.
C20_ReplaceIsIdempotent ==
    ReplaceWithClosedMap =>
        /\ Unwrap(fn_result)[1] = "ok"
        /\ IsSome(fn_again) => Unwrap(fn_again) = Unwrap(fn_result)

\* C20 happens: forall (x : ?2 a). ?1 x was substituted twice with a map
\* that binds both metas to fun (x : Type) => F x
C20_Witness ==
    /\ ReplaceWithClosedMap /\ IsSome(fn_again)
    /\ fn_call[2] = Pi(App(M2, La), App(M1, BVar(0)))
    /\ fn_call[3] =
         [m \in MetaNames |-> Some(<<Lam(TypeT, App(GF, BVar(0))), {1}>>)]

(***************************************************************************)
(* Properties of visit_unification (under Spec).                           *)
(***************************************************************************)
\* the one input constraint has a rigid term without metas on the left and
\* a meta applied to distinct locals on the right
MirroredPatternInput ==
    /\ Len(input) = 1 /\ ~IsChoice(input[1])
    /\ IsPatternSide(input[1][3]) /\ ArgsOf(input[1][3]) # <<>>
    /\ HeadIsGlobal(input[1][2]) /\ MetasOf(input[1][2]) = {}

\* C21: the Pattern case solves for the meta-headed side also when it is
\* the right side: for the single input F a b = ?m a b the run does not
\* fail, and the returned map binds ?m to the left side abstracted over the
\* locals of ?m's spine, \a b. F a b.
C21_PatternOnTheRightSolves ==
    MirroredPatternInput =>
        /\ phase \in {"new", "solve", "ok", "replaced"}
        /\ phase \in {"ok", "replaced"} =>
              solution_mapping[HeadOf(input[1][3])[2]] =
                Some(<<AbstractLambda(SpineNames(input[1][3]), input[1][2]),
                       {1}>>)

\* the constraint about to be visited, and its pivot meta
Visited == Head(todo)[2]
Pivot == Unwrap(PivotMeta(Visited[2], Visited[3], solution_mapping))

\* visit_unification is about to run on a constraint whose pivot is solved
SolvedPivotVisit ==
    /\ phase = "new" /\ todo # <<>> /\ ~IsChoice(Visited)
    /\ TermSize(Visited[2]) <= MaxTermSize
    /\ TermSize(Visited[3]) <= MaxTermSize
    /\ IsSome(PivotMeta(Visited[2], Visited[3], solution_mapping))
    /\ IsSome(solution_mapping[Pivot])

\* simplify of the two sides with the pivot's solution substituted, under
\* the join of the constraint's justification and the solution's
SubstitutedAndSimplified ==
    Simplify(InstantiateMeta(Visited[2], Pivot,
                             Unwrap(solution_mapping[Pivot])[1]),
             InstantiateMeta(Visited[3], Pivot,
                             Unwrap(solution_mapping[Pivot])[1]),
             Visited[4] \cup Unwrap(solution_mapping[Pivot])[2],
             local_counter, solution_mapping, input)

\* C22: visit_unification on a constraint whose pivot m has the solution
\* (t, j_m) substitutes t for m on both sides, simplifies under Join(j, j_m)
\* and hands every resulting constraint to visit (or returns simplify's
\* failure); it parks nothing and leaves solution_mapping as it is.
C22_SolvedPivotIsSubstituted ==
    [][SolvedPivotVisit =>
         /\ solution_mapping' = solution_mapping
         /\ constraint_mapping' = constraint_mapping
         /\ constraints' = constraints
         /\ IF SubstitutedAndSimplified.tag = "ok"
            THEN /\ todo' = SubstitutedAndSimplified.cs \o Tail(todo)
                 /\ phase' = "new"
            ELSE /\ phase' = SubstitutedAndSimplified.tag
                 /\ error' = SubstitutedAndSimplified.j]_vars

\* C22 happens: ?1 a b = F a b was visited a second time with ?1 solved, and
\* was discharged by the substitution
C22_Witness ==
    /\ input = <<<<"unif", ApplyAll(M1, <<La, Lb>>), ApplyAll(GF, <<La, Lb>>)>>,
                 <<"unif", ApplyAll(M1, <<La, Lb>>), ApplyAll(GF, <<La, Lb>>)>>>>
    /\ phase = "new" /\ next_c = 3 /\ todo = <<>>
    /\ constraints = <<>>
    /\ IsSome(solution_mapping[M1[2]])

\* visit_unification is about to run on a constraint whose pivot is unsolved
UnsolvedPivotVisit ==
    /\ phase = "new" /\ todo # <<>> /\ ~IsChoice(Visited)
    /\ TermSize(Visited[2]) <= MaxTermSize
    /\ TermSize(Visited[3]) <= MaxTermSize
    /\ IsSome(PivotMeta(Visited[2], Visited[3], solution_mapping))
    /\ ~IsSome(solution_mapping[Pivot])

\* C23: a non-Pattern constraint whose pivot m is unsolved is appended to
\* constraint_mapping[m] and to the priority queue, solution_mapping staying
\* as it is; and a step of visit_unification that records a solution for a
\* meta m hands every constraint parked under m to visit, in order, ahead of
\* whatever was waiting.
C23_ParkingAndWakeUp ==
    [][/\ (UnsolvedPivotVisit /\ Head(todo)[1] # "Pattern") =>
             /\ constraint_mapping' =
                  [constraint_mapping EXCEPT
                     ![Pivot] = Append(constraint_mapping[Pivot], Head(todo))]
             /\ constraints' = Append(constraints, Head(todo))
             /\ solution_mapping' = solution_mapping
             /\ todo' = Tail(todo)
             /\ phase' = "new"
       /\ \A m \in DOMAIN solution_mapping :
             (phase = "new" /\ solution_mapping'[m] # solution_mapping[m]) =>
                 /\ UnsolvedPivotVisit /\ Head(todo)[1] = "Pattern"
                 /\ todo' = constraint_mapping[m] \o Tail(todo)
                 /\ constraint_mapping' = constraint_mapping
                 /\ phase' = "new"]_vars

\* C23 happens: ?1 a b = ?2 a b was parked under ?2, ?2 a b = F a b solved
\* ?2, and the parked constraint is the next to be visited
C23_Witness ==
    /\ Len(input) = 2 /\ next_c = 3 /\ phase = "new"
    /\ Len(constraints) = 1
    /\ \E m \in DOMAIN solution_mapping :
          /\ IsSome(solution_mapping[m])
          /\ constraint_mapping[m] # <<>>
          /\ todo = constraint_mapping[m]
          /\ constraints = constraint_mapping[m]

\* the metas that have a solution
Solved == {m \in DOMAIN solution_mapping : IsSome(solution_mapping[m])}

\* C24: once solution_mapping holds a solution for a meta, no step of
\* Solver::new, solve or replace_metavars overwrites or removes it.
C24_SingleAssignment ==
    [][\A m \in Solved : solution_mapping'[m] = solution_mapping[m]]_vars

\* C24 happens: a second meta was solved while the first had its solution,
\* and the run went through solve
C24_Witness ==
    /\ phase = "ok"
    /\ Cardinality(Solved) = 2

\* C25: no recorded solution for a meta m contains m itself; the constraint
\* ?m a = F (?m a) never becomes a cyclic solution.
C25_NoCyclicSolution ==
    \A m \in Solved : m \notin MetasOf(Unwrap(solution_mapping[m])[1])

\* solve is running and every parked constraint was woken: each meta with
\* parked constraints got its solution during Solver::new
AllWoken ==
    /\ phase = "solve"
    /\ constraints # <<>>
    /\ \A m \in DOMAIN constraint_mapping :
          constraint_mapping[m] # <<>> => m \in Solved

\* C26: when every parked constraint was re-visited through wake-up during
\* Solver::new, solve does not fail, whatever the categories of the entries
\* still in the priority queue.
C26_WokenConstraintsDoNotFailSolve ==
    [][AllWoken => phase' \in {"solve", "ok"}]_vars

\* Solver::new is about to simplify an input constraint between two
\* applications of the same global with spines of different lengths
SpineLengthsDiffer ==
    /\ phase = "new" /\ todo = <<>> /\ next_c <= Len(input)
    /\ ~IsChoice(input[next_c])
    /\ IsApp(input[next_c][2]) /\ IsApp(input[next_c][3])
    /\ HeadIsGlobal(input[next_c][2])
    /\ HeadOf(input[next_c][2]) = HeadOf(input[next_c][3])
    /\ Len(ArgsOf(input[next_c][2])) # Len(ArgsOf(input[next_c][3]))

\* the length of the shorter of the two spines
CommonPrefix ==
    IF Len(ArgsOf(input[next_c][2])) < Len(ArgsOf(input[next_c][3]))
    THEN Len(ArgsOf(input[next_c][2]))
    ELSE Len(ArgsOf(input[next_c][3]))

\* C27: simplify of two applications of the same global whose spines differ
\* in length does not return Ok with one constraint per argument of the
\* common prefix.
C27_SpineLengthMismatchIsNotOk ==
    [][SpineLengthsDiffer =>
         ~(phase' = "new" /\ Len(todo') = CommonPrefix)]_vars

(***************************************************************************)
(* Further properties of the elaborator (under ElabSpec).                  *)
(***************************************************************************)
\* the loop has just elaborated, with Ok, a definition whose body is `_`
PlaceholderBodyElaborated ==
    /\ ephase = "items" /\ item_idx > 1
    /\ LastItem[1] = "Def" /\ LastItem[5] = SVar(Placeholder)
    /\ IsSome(last) /\ Unwrap(last)[1] = "ok"

\* C28: a Placeholder `_` in term position elaborates to a fresh meta and
\* never to a local, also when an enclosing binder is itself named `_`:
\* the elaborated body of `def g ... := _` holds a meta.
C28_PlaceholderIsNeverALocal ==
    PlaceholderBodyElaborated =>
        MetasOf(Unwrap(Unwrap(last)[2])[5]) # {}

\* the loop has elaborated two definitions, the second being
\* `def h : Type := n` where n is the name of the first, and the first failed
FailedItemReferenced ==
    /\ ephase = "items" /\ item_idx = 3 /\ IsSome(last)
    /\ items[1][1] = "Def" /\ items[2][1] = "Def"
    /\ items[2][3] = <<>> /\ items[2][4] = SType
    /\ items[2][5] = SVar(items[1][2])
    /\ items[2][2] # items[1][2]
    /\ \/ Unwrap(last)[1] = "ok" /\ Len(errors) = 1
       \/ Unwrap(last)[1] = "err" /\ Len(errors) = 2

\* C29: an item whose elaboration failed leaves no name behind that a later
\* item can resolve: a reference to it fails with UnknownVariable.
C29_FailedItemIsNotResolvable ==
    FailedItemReferenced =>
        Unwrap(last) = <<"err", UnknownVariable(items[1][2])>>

====
